---------------------------- MODULE Spec2Model ----------------------------
(***************************************************************************)
(* Model of maven-repository-builder: the repository builder               *)
(* (maven_repo_builder.py: fetch of the listed artifacts into a local      *)
(* repository over http(s) or from a file repository, then the checksum    *)
(* pass) and the artifact list generator (artifact_list_generator.py).     *)
(***************************************************************************)
EXTENDS Integers, Sequences, FiniteSets, TLC

(***************************************************************************)
(* Bounds of the model.                                                    *)
(***************************************************************************)
\* longest artifact list handed to one run of the builder
MaxArts == 2
\* number of files already in the output directory when the first run starts
MaxPre == 1
\* number of runs of the builder over the same output directory
MaxRuns == 2
\* number of prioritized sources of the list generator's configuration
MaxPriority == 2
\* number of lines of an artifact list file
MaxLines == 2

(***************************************************************************)
(* The universe: one group:artifact:version directory, two artifact types, *)
(* the main artifact and the "sources" classifier.                         *)
(***************************************************************************)
Types == {"jar", "pom"}
Classifiers == {"", "sources"}
Versions == {"1.0"}
DigestExts == {"md5", "sha1"}

\* a MavenArtifact, as createFromGAV builds it
Coordinates == [groupId : {"g"}, artifactId : {"a"}, artifactType : Types,
                classifier : Classifiers, version : Versions]

\* a path relative to the repository root: <dir>/<artifactId>-<version>[-<cls>].<ext>
\* followed by the digest extensions appended to it (a.jar, a.jar.md5, a.jar.md5.sha1)
Dirs == [groupId : {"g"}, artifactId : {"a"}, version : Versions]
Suffixes == {<<>>} \cup {<<d>> : d \in DigestExts}
              \cup {<<d, e>> : d \in DigestExts, e \in DigestExts}
Paths == [dir : Dirs, cls : Classifiers, ext : Types, sfx : Suffixes]
ContentPaths == {p \in Paths : p.sfx = <<>>}

\* a repository url, as urlparse splits it
Urls == [protocol : {"file", "http", "https", "ftp"}, path : {"/repo"}]
Url(protocol) == [protocol |-> protocol, path |-> "/repo"]

\* file contents: sequences of strings; the absent file is <<>>
Absent == <<>>
\* bytes the repository `url` serves for path p
Served(url, p) == <<url.protocol, p.cls, p.ext>>
\* a file whose write was cut short
Truncated(c) == <<"truncated">> \o c
\* a file that was in the output directory before the first run
Old(p) == <<"old", p.cls, p.ext>> \o p.sfx

\* what a repository answers for a path
Resps == {"ok", "missing", "error"}

(***************************************************************************)
(* maven_artifact.MavenArtifact: names and paths derived from a coordinate *)
(***************************************************************************)
getDirPath(artifact) ==
    [groupId |-> artifact.groupId, artifactId |-> artifact.artifactId,
     version |-> artifact.version]

getArtifactFilepath(artifact) ==
    [dir |-> getDirPath(artifact), cls |-> artifact.classifier,
     ext |-> artifact.artifactType, sfx |-> <<>>]

getPomFilepath(artifact) ==
    [dir |-> getDirPath(artifact), cls |-> "", ext |-> "pom", sfx |-> <<>>]

getClassifierFilepath(artifact, classifier) ==
    [dir |-> getDirPath(artifact), cls |-> classifier,
     ext |-> artifact.artifactType, sfx |-> <<>>]

\* the test of the pom made on the artifact's type instead of its file name
HasSeparatePom_byType(artifact) == artifact.artifactType # "pom"

\* getArtifactFilename() != getPomFilename()
HasSeparatePom(artifact) == getArtifactFilepath(artifact) # getPomFilepath(artifact)

\* artifact.getArtifactType() != 'pom' and not artifact.getClassifier()
TakesClassifiers(artifact) ==
    artifact.artifactType # "pom" /\ artifact.classifier = ""

(***************************************************************************)
(* State.                                                                  *)
(***************************************************************************)
VARIABLES
    remote,       \* what each repository holds: url -> (path -> answer)
    jobs,         \* the (url, artifact list) pairs main fetches, in order
    classifiers,  \* options.classifiers, split: the additional classifiers
    localRepo,    \* the output directory: [root, dirs, files: path -> content]
    initialRepo,  \* the output directory before the first run
    startRepo,    \* the output directory when the current run started
    pc,           \* where main is: "fetch", "sums", "done", "crashed", "killed"
    job,          \* index in jobs of the retrieveArtifacts call in progress
    entered,      \* whether that call has passed its protocol dispatch
    art,          \* index of the next artifact of that call
    writes,       \* paths and directories written by the current run
    requests,     \* origin files the current run asked for: [url, path, via]
    log,          \* log records of the current run
    run,          \* number of the current run
    history,      \* how each earlier run ended
    allclassifiers, \* options.allclassifiers of the list generator
    gpc,          \* where generateArtifactList is: "load", "built", "filtered", "done"
    builtList,    \* the list as ArtifactListBuilder.buildList returned it
    artifactList, \* the list generateArtifactList works on
    urlToMAList,  \* its result: url -> sequence of MavenArtifact
    argv,         \* the command line of the builder: [config, url, files]
    depList,      \* the lines depListToArtifactList is converting
    depNext,      \* index of the next line of its loop
    depArtifacts, \* its artifactList
    fetchers      \* builder processes working on one output directory at once

genVars == <<allclassifiers, gpc, builtList, artifactList, urlToMAList>>

depVars == <<depList, depNext, depArtifacts>>

otherVars == <<argv, depVars, fetchers>>

fetchVars == <<remote, jobs, classifiers, localRepo, initialRepo, startRepo, pc, job,
               entered, art, writes, requests, log, run, history>>

vars == <<fetchVars, genVars, otherVars>>


\* what the repository url answers for path p
Answer(url, p) == IF p \in DOMAIN remote[url] THEN remote[url][p] ELSE "missing"

(***************************************************************************)
(* The file system of the output directory and the effects of a run, as    *)
(* one record w = [repo, writes, requests, log, raised] threaded through   *)
(* the operators below.  raised: an exception is propagating.              *)
(***************************************************************************)
NoWrites == [files |-> {}, dirs |-> {}, root |-> FALSE]

World == [repo |-> localRepo, writes |-> writes, requests |-> requests,
          log |-> log, raised |-> FALSE]

\* the content of path p in the tree repo, Absent when there is no such file
Content(repo, p) == IF p \in DOMAIN repo.files THEN repo.files[p] ELSE Absent

\* os.path.exists on a path of the output directory
exists(w, p) == p \in DOMAIN w.repo.files

\* os.path.exists on a directory of the output directory
dirExists(w, d) == d \in w.repo.dirs

Logged(w, level, msg, url, file) ==
    [w EXCEPT !.log = @ \cup {[level |-> level, msg |-> msg, url |-> url, file |-> file]}]

FileOf(p) == <<p.cls, p.ext>> \o p.sfx

\* os.makedirs(localRepoDir)
makeRoot(w) ==
    [w EXCEPT !.repo.root = TRUE, !.writes.root = TRUE]

\* os.makedirs(artifactLocalDir): creates the missing parents as well
makedirs(w, d) ==
    [w EXCEPT !.repo.root = TRUE,
              !.repo.dirs = @ \cup {d},
              !.writes.dirs = @ \cup {d},
              !.writes.root = @ \/ ~w.repo.root]

\* open(path, 'w') and write of the whole content; fails when the directory is missing
writeFile(w, p, content) ==
    IF ~dirExists(w, p.dir)
    THEN [w EXCEPT !.raised = TRUE]
    ELSE [w EXCEPT !.repo.files = (p :> content) @@ @, !.writes.files = @ \cup {p}]

Asked(w, url, p, via) ==
    [w EXCEPT !.requests = @ \cup {[url |-> url, path |-> p, via |-> via]}]

(***************************************************************************)
(* maven_repo_util.download: fetches url/p into the local path p. Returns  *)
(* the world and the http status (0: no status, the request failed).       *)
(***************************************************************************)
download(w, url, p) ==
    LET w1 == Asked(w, url, p, "download")
        resp == Answer(url, p)
    IN  CASE resp = "ok" ->
                [w |-> writeFile(w1, p, Served(url, p)), code |-> 200]
          [] resp = "missing" ->
                [w |-> w1, code |-> 404]
          [] OTHER ->
                [w |-> Logged(w1, "error", "Unable to download", url, FileOf(p)), code |-> 0]

\* downloadFile leaving the temporary file of the transfer beside the file
downloadFile_leavesPart(w, url, p) ==
    IF w.raised THEN w
    ELSE IF exists(w, p)
    THEN Logged(w, "debug", "Artifact already downloaded", url, FileOf(p))
    ELSE LET r == download(w, url, p)
         IN  IF r.code = 404
             THEN Logged(r.w, "warning", "Remote file not found", url, FileOf(p))
             ELSE IF r.code = 200
             THEN writeFile(r.w, [p EXCEPT !.sfx = <<"part">>], Served(url, p))
             ELSE r.w

\* downloadFile with the 404 response raised instead of logged
downloadFile_fatal(w, url, p) ==
    IF w.raised THEN w
    ELSE IF exists(w, p)
    THEN Logged(w, "debug", "Artifact already downloaded", url, FileOf(p))
    ELSE LET r == download(w, url, p)
         IN  IF r.code = 404 THEN [r.w EXCEPT !.raised = TRUE] ELSE r.w

\* downloadFile without the test of the local path
downloadFile_refetch(w, url, p) ==
    IF w.raised THEN w
    ELSE LET r == download(w, url, p)
         IN  IF r.code = 404
             THEN Logged(r.w, "warning", "Remote file not found", url, FileOf(p))
             ELSE r.w

downloadFile(w, url, p) ==
    IF w.raised THEN w
    ELSE IF exists(w, p)
    THEN Logged(w, "debug", "Artifact already downloaded", url, FileOf(p))
    ELSE LET r == download(w, url, p)
         IN  IF r.code = 404
             THEN Logged(r.w, "warning", "Remote file not found", url, FileOf(p))
             ELSE r.w

\* copyFile with the guard reduced to the test of the source path
copyFile_recopy(w, url, p) ==
    IF w.raised THEN w
    ELSE LET w1 == Asked(w, url, p, "copy")
         IN  IF Answer(url, p) = "ok"
             THEN writeFile(Logged(w1, "info", "Copying file", url, FileOf(p)),
                            p, Served(url, p))
             ELSE w1

\* shutil.copyfile(src, dst) under the guard of copyArtifact
copyFile(w, url, p) ==
    IF w.raised THEN w
    ELSE LET w1 == Asked(w, url, p, "copy")
         IN  IF Answer(url, p) = "ok" /\ ~exists(w, p)
             THEN writeFile(Logged(w1, "info", "Copying file", url, FileOf(p)),
                            p, Served(url, p))
             ELSE w1

\* the main artifact of copyArtifact: the only copy that creates the directory
copyMain(w, url, artifact) ==
    LET p == getArtifactFilepath(artifact)
        w1 == Asked(w, url, p, "copy")
    IN  IF w.raised THEN w
        ELSE IF Answer(url, p) = "ok" /\ ~exists(w, p)
        THEN LET w2 == IF ~dirExists(w1, getDirPath(artifact))
                       THEN makedirs(w1, getDirPath(artifact)) ELSE w1
             IN  writeFile(Logged(w2, "info", "Copying file", url, FileOf(p)),
                           p, Served(url, p))
        ELSE w1

\* the files one artifact brings after its main file: the pom, then the classifiers
Companions(artifact, cls) ==
    (IF HasSeparatePom(artifact) THEN <<getPomFilepath(artifact)>> ELSE <<>>)
    \o (IF TakesClassifiers(artifact)
        THEN [i \in 1..Len(cls) |-> getClassifierFilepath(artifact, cls[i])]
        ELSE <<>>)

\* the files one artifact brings, in the order the fetcher handles them
Targets(artifact, cls) == <<getArtifactFilepath(artifact)>> \o Companions(artifact, cls)


(***************************************************************************)
(* downloadArtifacts and copyArtifact.  The ...Upto operators are the      *)
(* handler stopped after the first n of its files; the handler itself is   *)
(* the case n = all.                                                       *)
(***************************************************************************)
RECURSIVE downloadFiles(_, _, _, _)
downloadFiles(w, url, ps, n) ==
    IF n = 0 THEN w ELSE downloadFile(downloadFiles(w, url, ps, n - 1), url, ps[n])

downloadUpto(w, url, artifact, cls, n) ==
    LET w1 == IF ~dirExists(w, getDirPath(artifact))
              THEN makedirs(w, getDirPath(artifact)) ELSE w
    IN  IF w.raised THEN w ELSE downloadFiles(w1, url, Targets(artifact, cls), n)

downloadArtifacts(w, url, artifact, cls) ==
    downloadUpto(w, url, artifact, cls, Len(Targets(artifact, cls)))

RECURSIVE copyFiles(_, _, _, _)
copyFiles(w, url, ps, n) ==
    IF n = 0 THEN w ELSE copyFile(copyFiles(w, url, ps, n - 1), url, ps[n])

copyUpto(w, url, artifact, cls, n) ==
    IF n = 0 \/ w.raised THEN w
    ELSE copyFiles(copyMain(w, url, artifact), url, Companions(artifact, cls), n - 1)

copyArtifact(w, url, artifact, cls) ==
    copyUpto(w, url, artifact, cls, Len(Targets(artifact, cls)))

\* the dispatch with https left out of the first test
Transport_httpOnly(url) ==
    IF url.protocol = "http" THEN "download"
    ELSE IF url.protocol = "file" THEN "copy"
    ELSE "unknown"

\* the protocol dispatch of retrieveArtifacts
Transport(url) ==
    IF url.protocol = "http" \/ url.protocol = "https" THEN "download"
    ELSE IF url.protocol = "file" THEN "copy"
    ELSE "unknown"

\* the fetch of one artifact over the transport of url, stopped after n files
FetchUpto(w, url, artifact, cls, n) ==
    IF Transport(url) = "copy"
    THEN copyUpto(w, url, artifact, cls, n)
    ELSE downloadUpto(w, url, artifact, cls, n)

(***************************************************************************)
(* generateChecksums and generateChecksumFiles.                            *)
(***************************************************************************)
\* os.path.splitext(filepath)[1], without the dot
splitext(p) == IF p.sfx = <<>> THEN p.ext ELSE p.sfx[Len(p.sfx)]

\* maven_repo_util.getChecksum: the hex digest of the file's content
getChecksum(w, p, kind) == <<kind>> \o Content(w.repo, p)

\* writeChecksum without the test of the checksum file
writeChecksum_rewrite(w, p, ext) ==
    LET sumfile == [p EXCEPT !.sfx = Append(@, ext)]
    IN  writeFile(w, sumfile, getChecksum(w, p, ext) \o <<"\n">>)

\* one turn of the loop over ('.md5', '.sha1')
writeChecksum(w, p, ext) ==
    LET sumfile == [p EXCEPT !.sfx = Append(@, ext)]
    IN  IF exists(w, sumfile) THEN w
        ELSE writeFile(w, sumfile, getChecksum(w, p, ext) \o <<"\n">>)

\* generateChecksumFiles without the test of the file's extension
generateChecksumFiles_everyFile(w, p) ==
    IF ~exists(w, p) THEN w
    ELSE writeChecksum(writeChecksum(w, p, "md5"), p, "sha1")

\* generateChecksumFiles leaving the loop at the first checksum file that exists
generateChecksumFiles_break(w, p) ==
    IF splitext(p) \in DigestExts THEN w
    ELSE IF ~exists(w, p) THEN w
    ELSE IF exists(w, [p EXCEPT !.sfx = Append(@, "md5")]) THEN w
    ELSE writeChecksum(writeChecksum(w, p, "md5"), p, "sha1")

generateChecksumFiles(w, p) ==
    IF splitext(p) \in DigestExts THEN w
    ELSE IF ~exists(w, p) THEN w
    ELSE writeChecksum(writeChecksum(w, p, "md5"), p, "sha1")

RECURSIVE walkFiles(_, _)
walkFiles(w, files) ==
    IF files = {} THEN w
    ELSE LET p == CHOOSE q \in files : TRUE
         IN  walkFiles(generateChecksumFiles(w, p), files \ {p})

\* os.walk lists the files of a directory before the loop body runs on them
generateChecksums(w) ==
    IF ~w.repo.root THEN w
    ELSE walkFiles(w, DOMAIN w.repo.files)


(***************************************************************************)
(* retrieveArtifacts and the body of main as operators: a whole run that   *)
(* nothing interrupts.                                                     *)
(***************************************************************************)
RECURSIVE downloadList(_, _, _, _, _)
downloadList(w, url, artifacts, cls, n) ==
    IF n = 0 THEN w
    ELSE downloadArtifacts(downloadList(w, url, artifacts, cls, n - 1),
                           url, artifacts[n], cls)

RECURSIVE copyList(_, _, _, _, _)
copyList(w, url, artifacts, cls, n) ==
    IF n = 0 THEN w
    ELSE copyArtifact(copyList(w, url, artifacts, cls, n - 1),
                      url, artifacts[n], cls)

retrieveArtifacts(w, url, artifacts, cls) ==
    LET w1 == IF ~w.repo.root THEN makeRoot(w) ELSE w
    IN  IF w.raised THEN w
        ELSE IF Transport(url) = "download"
        THEN downloadList(w1, url, artifacts, cls, Len(artifacts))
        ELSE IF Transport(url) = "copy"
        THEN copyList(w1, url, artifacts, cls, Len(artifacts))
        ELSE Logged(w1, "error", "Unknown protocol", url, <<>>)

RECURSIVE fetchJobs(_, _, _, _)
fetchJobs(w, js, cls, n) ==
    IF n = 0 THEN w
    ELSE retrieveArtifacts(fetchJobs(w, js, cls, n - 1), js[n].url, js[n].artifacts, cls)

\* main from the first fetchArtifacts call on: an exception ends it before the checksums
mainRun(w, js, cls) ==
    LET fetched == fetchJobs(w, js, cls, Len(js))
    IN  IF fetched.raised THEN fetched ELSE generateChecksums(fetched)

(***************************************************************************)
(* Initial states: the inputs of main and the output directory it finds.   *)
(***************************************************************************)
\* sequences of at most n distinct elements of S
RECURSIVE ListsOf(_, _)
ListsOf(S, n) ==
    IF n = 0 THEN {<<>>}
    ELSE LET shorter == ListsOf(S, n - 1)
         IN  shorter \cup {Append(l, x) : l \in {m \in shorter : Len(m) = n - 1},
                                          x \in S}

Range(f) == {f[i] : i \in DOMAIN f}

ArtifactLists == {l \in ListsOf(Coordinates, MaxArts) : Cardinality(Range(l)) = Len(l)}

\* the origin files a run over these jobs can ask for
TargetsOfJobs(js, cls, url) ==
    UNION {UNION {Range(Targets(js[i].artifacts[k], cls)) : k \in DOMAIN js[i].artifacts} :
             i \in {i \in DOMAIN js : js[i].url = url}}

\* what a repository of this protocol can answer for a file
RespsOf(url) ==
    CASE url.protocol = "file" -> {"ok", "missing"}
      [] url.protocol = "ftp" -> {"ok"}
      [] OTHER -> Resps

\* the states of one repository: its answers for the files the jobs ask for
RemoteOf(js, cls, url) == [TargetsOfJobs(js, cls, url) -> RespsOf(url)]

RemotesFor(js, cls) ==
    {[url \in Urls |->
        CASE url.protocol = "file" -> f
          [] url.protocol = "http" -> h
          [] url.protocol = "https" -> s
          [] OTHER -> x] :
     f \in RemoteOf(js, cls, Url("file")), h \in RemoteOf(js, cls, Url("http")),
     s \in RemoteOf(js, cls, Url("https")), x \in RemoteOf(js, cls, Url("ftp"))}

\* files an output directory may hold before the first run: content files and
\* their checksum files
InitPaths == {p \in Paths : Len(p.sfx) <= 1}

InitRepos ==
    {[root |-> root, dirs |-> dirs,
      files |-> [p \in pre |-> Old(p)]] :
        <<root, dirs, pre>> \in
            {<<root, dirs, pre>> \in BOOLEAN \X (SUBSET Dirs) \X (SUBSET InitPaths) :
                /\ Cardinality(pre) <= MaxPre
                /\ {p.dir : p \in pre} \subseteq dirs
                /\ dirs # {} => root}}

\* no command line is being read, no list file converted, one process only
OtherIdle ==
    /\ argv = <<>>
    /\ depList = <<>>
    /\ depNext = 1
    /\ depArtifacts = <<>>
    /\ fetchers = <<>>

\* the list generator is not part of the run
GenIdle ==
    /\ allclassifiers = FALSE
    /\ gpc = "off"
    /\ builtList = <<>>
    /\ artifactList = <<>>
    /\ urlToMAList = <<>>

InitWith(js) ==
    /\ jobs = js
    /\ classifiers = <<"sources">>
    /\ remote \in RemotesFor(js, <<"sources">>)
    /\ localRepo \in InitRepos
    /\ initialRepo = localRepo
    /\ startRepo = localRepo
    /\ pc = "fetch"
    /\ job = 1
    /\ entered = FALSE
    /\ art = 1
    /\ writes = NoWrites
    /\ requests = {}
    /\ log = {}
    /\ run = 1
    /\ history = <<>>
    /\ GenIdle
    /\ OtherIdle

\* the urls given as options.url: the default is an http url
OptionUrls == {Url("file"), Url("http"), Url("ftp")}

\* main without --config: the artifacts of the list files, fetched from options.url
Init ==
    \E url \in OptionUrls, artifacts \in ArtifactLists :
        InitWith(<<[url |-> url, artifacts |-> artifacts]>>)

\* main with --config: one fetchArtifacts call per url of the generated list, in
\* the order of the dictionary's keys, into an output directory that is new
ConfigJobs ==
    {<<[url |-> u1, artifacts |-> <<a1>>], [url |-> u2, artifacts |-> <<a2>>]>> :
        <<u1, u2, a1, a2>> \in
            {<<u1, u2, a1, a2>> \in Urls \X Urls \X Coordinates \X Coordinates :
                /\ u1 # u2
                /\ {u1.protocol, u2.protocol} # {"http", "https"}}}

InitConfig ==
    /\ \E js \in ConfigJobs : InitWith(js)
    /\ ~localRepo.root
    /\ DOMAIN localRepo.files = {}

(***************************************************************************)
(* Actions.                                                                *)
(***************************************************************************)
Effects(w) ==
    /\ localRepo' = w.repo
    /\ writes' = w.writes
    /\ requests' = w.requests
    /\ log' = w.log

\* control after a retrieveArtifacts call returns: the next url, or the checksums
Returned ==
    /\ job' = job + 1
    /\ entered' = FALSE
    /\ art' = 1
    /\ pc' = IF job = Len(jobs) THEN "sums" ELSE "fetch"

\* retrieveArtifacts up to its loop: the output directory and the protocol dispatch
RetrieveArtifacts ==
    /\ pc = "fetch" /\ ~entered /\ job <= Len(jobs)
    /\ LET url == jobs[job].url
           w1 == IF ~localRepo.root THEN makeRoot(World) ELSE World
       IN  IF Transport(url) # "unknown"
           THEN /\ Effects(w1)
                /\ IF jobs[job].artifacts = <<>>
                   THEN Returned
                   ELSE entered' = TRUE /\ UNCHANGED <<pc, job, art>>
           ELSE /\ Effects(Logged(w1, "error", "Unknown protocol", url, <<>>))
                /\ Returned
    /\ UNCHANGED <<otherVars, genVars, remote, jobs, classifiers, initialRepo, startRepo, run, history>>

\* control after one artifact: the next artifact, the return, or the exception
Handled(w) ==
    /\ Effects(w)
    /\ IF w.raised
       THEN pc' = "crashed" /\ UNCHANGED <<job, entered, art>>
       ELSE IF art = Len(jobs[job].artifacts)
            THEN Returned
            ELSE art' = art + 1 /\ UNCHANGED <<pc, job, entered>>
    /\ UNCHANGED <<otherVars, genVars, remote, jobs, classifiers, initialRepo, startRepo, run, history>>

\* one turn of the loop over artifactList, network transport
DownloadArtifacts ==
    /\ pc = "fetch" /\ entered
    /\ Transport(jobs[job].url) = "download"
    /\ Handled(downloadArtifacts(World, jobs[job].url, jobs[job].artifacts[art], classifiers))

\* one turn of the loop over artifactList, file transport
CopyArtifact ==
    /\ pc = "fetch" /\ entered
    /\ Transport(jobs[job].url) = "copy"
    /\ Handled(copyArtifact(World, jobs[job].url, jobs[job].artifacts[art], classifiers))

\* main after the fetches: generateChecksums(options.output)
GenerateChecksums ==
    /\ pc = "sums"
    /\ Effects(generateChecksums(World))
    /\ pc' = "done"
    /\ UNCHANGED <<otherVars, genVars, remote, jobs, classifiers, initialRepo, startRepo, job, entered,
                   art, run, history>>

\* the process is killed while it fetches an artifact: after n of its files, or
\* inside the write of the next one, which leaves that file cut short
Interrupt ==
    /\ pc = "fetch" /\ entered /\ run < MaxRuns
    /\ LET url == jobs[job].url
           artifact == jobs[job].artifacts[art]
           ps == Targets(artifact, classifiers)
       IN  \E n \in 0..(Len(ps) - 1), cut \in BOOLEAN :
              LET before == FetchUpto(World, url, artifact, classifiers, n)
                  after == FetchUpto(World, url, artifact, classifiers, n + 1)
                  p == ps[n + 1]
              IN  /\ ~before.raised
                  /\ IF cut
                     THEN /\ ~after.raised
                          /\ Content(after.repo, p) # Content(before.repo, p)
                          /\ Effects([after EXCEPT !.repo.files[p] = Truncated(@)])
                     ELSE Effects(before)
    /\ pc' = "killed"
    /\ UNCHANGED <<otherVars, genVars, remote, jobs, classifiers, initialRepo, startRepo, job, entered,
                   art, run, history>>

\* the builder is started again with the same arguments
Rerun ==
    /\ pc \in {"done", "crashed", "killed"} /\ run < MaxRuns
    /\ history' = Append(history, pc)
    /\ run' = run + 1
    /\ startRepo' = localRepo
    /\ pc' = "fetch" /\ job' = 1 /\ entered' = FALSE /\ art' = 1
    /\ writes' = NoWrites /\ requests' = {} /\ log' = {}
    /\ UNCHANGED <<otherVars, genVars, remote, jobs, classifiers, localRepo, initialRepo>>

Next ==
    \/ RetrieveArtifacts
    \/ DownloadArtifacts
    \/ CopyArtifact
    \/ GenerateChecksums
    \/ Rerun

\* runs of the builder that end by themselves
Spec == Init /\ [][Next]_vars

SpecConfig == InitConfig /\ [][Next]_vars

NextInterruptible ==
    \/ RetrieveArtifacts
    \/ DownloadArtifacts
    \/ CopyArtifact
    \/ GenerateChecksums
    \/ Interrupt
    \/ Rerun

\* runs of the builder that may be killed while they fetch
SpecInterruptible == Init /\ [][NextInterruptible]_vars


(***************************************************************************)
(* The artifact list generator.  The list is the nested dictionary         *)
(* gat -> priority -> version -> ArtifactSpec, kept here as one function   *)
(* from <<gat, priority, version>> to [url, classifiers].                  *)
(***************************************************************************)
GATs == {<<"g", "a", "jar">>, <<"g", "a", "pom">>}
Priorities == 1..MaxPriority
ListKeys == GATs \X Priorities \X Versions
ListUrls == {Url("file"), Url("https")}

\* the specs a source declares: the main artifact is always among the classifiers
BuiltSpecs == [url : ListUrls, classifiers : {c \in SUBSET Classifiers : "" \in c}]

LayeredIndexes == UNION {[K -> BuiltSpecs] : K \in SUBSET ListKeys}

\* the text gat + [":" + classifier] + ":" + version, as its ":"-separated fields
GavText(gat, classifier, version) ==
    gat \o (IF classifier # "" THEN <<classifier>> ELSE <<>>) \o <<version>>

\* maven_artifact.MavenArtifact.createFromGAV: groupId:artifactId[:type[:classifier]]:version
createFromGAV(gav) ==
    [groupId |-> gav[1], artifactId |-> gav[2],
     artifactType |-> IF Len(gav) >= 4 THEN gav[3] ELSE "jar",
     classifier |-> IF Len(gav) >= 5 THEN gav[4] ELSE "",
     version |-> gav[Len(gav)]]

\* the entries of the list that no entry of the same gat and version precedes
\* in priority
FirstPriority(list) ==
    [k \in {k \in DOMAIN list :
              \A j \in DOMAIN list :
                  (j[1] = k[1] /\ j[3] = k[3]) => k[2] <= j[2]} |-> list[k]]

\* filter.Filter.filter: the results the configured filters can give: the list
\* reduced to the first priority of each gat and version, with versions and gats
\* dropped and classifier sets narrowed (kept whole with all classifiers asked for)
filter(list, allcls) ==
    LET reduced == FirstPriority(list)
        narrowed(k) == IF allcls THEN {reduced[k].classifiers}
                       ELSE (SUBSET reduced[k].classifiers) \ {{}}
    IN  {f \in UNION {[K -> [url : ListUrls, classifiers : (SUBSET Classifiers) \ {{}}]] :
                        K \in SUBSET DOMAIN reduced} :
            \A k \in DOMAIN f :
                f[k].url = reduced[k].url /\ f[k].classifiers \in narrowed(k)}

\* generateArtifactList without the test of the classifier
generateArtifactList_everyClassifier(list, allcls) ==
    {[url |-> list[k].url, key |-> k, classifier |-> c,
      artifact |-> createFromGAV(GavText(k[1], c, k[3]))] :
        <<k, c>> \in {<<k, c>> \in (DOMAIN list) \X Classifiers :
                        c \in list[k].classifiers}}

\* the artifacts generateArtifactList appends, each with the url it appends it to
\* and the entry and classifier it comes from
generateArtifactList(list, allcls) ==
    {[url |-> list[k].url, key |-> k, classifier |-> c,
      artifact |-> createFromGAV(GavText(k[1], c, k[3]))] :
        <<k, c>> \in {<<k, c>> \in (DOMAIN list) \X Classifiers :
                        c \in list[k].classifiers /\ (c = "" \/ allcls)}}

\* the dictionaries url -> list the appends can build: the loops follow the
\* order of the dictionaries' keys
Results(appended) ==
    LET urls == {e.url : e \in appended}
        of(url) == {e \in appended : e.url = url}
        orders(url) == {o \in [1..Cardinality(of(url)) -> of(url)] : Range(o) = of(url)}
    IN  {[url \in urls |-> [i \in DOMAIN o[url] |-> o[url][i].artifact]] :
            o \in {o \in [urls -> UNION {orders(url) : url \in urls}] :
                     \A url \in urls : o[url] \in orders(url)}}

\* the builder is not part of the run
FetchIdle ==
    /\ jobs = <<>>
    /\ classifiers = <<>>
    /\ remote = [url \in Urls |-> <<>>]
    /\ localRepo = [root |-> FALSE, dirs |-> {}, files |-> <<>>]
    /\ initialRepo = localRepo
    /\ startRepo = localRepo
    /\ pc = "off"
    /\ job = 1
    /\ entered = FALSE
    /\ art = 1
    /\ writes = NoWrites
    /\ requests = {}
    /\ log = {}
    /\ run = 1
    /\ history = <<>>

\* generateArtifactList(options) is called: allclassifiers is set from the options
InitList ==
    /\ FetchIdle
    /\ OtherIdle
    /\ allclassifiers \in BOOLEAN
    /\ gpc = "load"
    /\ builtList = <<>>
    /\ artifactList = <<>>
    /\ urlToMAList = <<>>

\* config.load and listBuilder.buildList: the sources give any layered list
BuildList ==
    /\ gpc = "load"
    /\ artifactList' \in LayeredIndexes
    /\ builtList' = artifactList'
    /\ gpc' = "built"
    /\ UNCHANGED <<otherVars, fetchVars, allclassifiers, urlToMAList>>

\* the filter result is dropped instead of replacing the list
FilterList_unassigned ==
    /\ gpc = "built"
    /\ gpc' = "filtered"
    /\ UNCHANGED <<otherVars, fetchVars, allclassifiers, builtList, artifactList, urlToMAList>>

\* artifactList = listFilter.filter(artifactList)
FilterList ==
    /\ gpc = "built"
    /\ artifactList' \in filter(artifactList, allclassifiers)
    /\ gpc' = "filtered"
    /\ UNCHANGED <<otherVars, fetchVars, allclassifiers, builtList, urlToMAList>>

\* the loops of generateArtifactList over the filtered list
GenerateArtifactList ==
    /\ gpc = "filtered"
    /\ urlToMAList' \in Results(generateArtifactList(artifactList, allclassifiers))
    /\ gpc' = "done"
    /\ UNCHANGED <<otherVars, fetchVars, allclassifiers, builtList, artifactList>>

NextList ==
    \/ BuildList
    \/ FilterList
    \/ GenerateArtifactList

SpecList == InitList /\ [][NextList]_vars

(***************************************************************************)
(* depListToArtifactList.  A line is the sequence of its characters; the   *)
(* words the lines are written with are spelled by Chars.                  *)
(***************************************************************************)
Letters == {"a", "b", "c", "d", "e", "f", "g", "h", "i", "j", "k", "l", "m",
            "n", "o", "p", "q", "r", "s", "t", "u", "v", "w", "x", "y", "z"}
Digits == {"0", "1", "2", "3", "4", "5", "6", "7", "8", "9"}
\* the class [\w\-.] of regexGAV
NameChars == Letters \cup Digits \cup {"_", "-", "."}
\* what str.strip() removes
Whitespace == {" ", "\t", "\n"}

Words == {"g", "a", "x", "jar", "pom", "sources", "compile", "not", "coordinate",
          "note", "1.0", "1", "v1"}

Chars(word) ==
    CASE word = "g" -> <<"g">>
      [] word = "a" -> <<"a">>
      [] word = "x" -> <<"x">>
      [] word = "jar" -> <<"j", "a", "r">>
      [] word = "pom" -> <<"p", "o", "m">>
      [] word = "sources" -> <<"s", "o", "u", "r", "c", "e", "s">>
      [] word = "compile" -> <<"c", "o", "m", "p", "i", "l", "e">>
      [] word = "not" -> <<"n", "o", "t">>
      [] word = "coordinate" -> <<"c", "o", "o", "r", "d", "i", "n", "a", "t", "e">>
      [] word = "note" -> <<"n", "o", "t", "e">>
      [] word = "1.0" -> <<"1", ".", "0">>
      [] word = "1" -> <<"1">>
      [] word = "v1" -> <<"v", "1">>

\* the word a sequence of characters spells
Text(chars) == CHOOSE word \in Words : Chars(word) = chars

Min(S) == CHOOSE x \in S : \A y \in S : x <= y
Max(S) == CHOOSE x \in S : \A y \in S : x >= y

\* regexComment.sub('', nextLine): '#.*$' takes the first # and what follows it
\* on the line; the newline that ends the line stays
regexComment(line) ==
    LET hashes == {i \in DOMAIN line : line[i] = "#"}
    IN  IF hashes = {} THEN line
        ELSE SubSeq(line, 1, Min(hashes) - 1)
                \o (IF line[Len(line)] = "\n" THEN <<"\n">> ELSE <<>>)

\* nextLine.strip()
strip(line) ==
    LET kept == {i \in DOMAIN line : line[i] \notin Whitespace}
    IN  IF kept = {} THEN <<>> ELSE SubSeq(line, Min(kept), Max(kept))

\* the last index of the run of name characters that starts at i (i - 1: none)
NameEnd(line, i) ==
    LET stops == {j \in i..Len(line) : line[j] \notin NameChars}
    IN  IF stops = {} THEN Len(line) ELSE Min(stops) - 1

\* ([\w\-.]+:) at index i: the index after its colon, 0 when it does not match
Segment(line, i) ==
    LET e == NameEnd(line, i)
    IN  IF i <= Len(line) /\ e >= i /\ e < Len(line) /\ line[e + 1] = ":"
        THEN e + 2 ELSE 0

\* ([\d][\w\-.]+) at index i: its last index, 0 when it does not match
VersionEnd(line, i) ==
    IF i >= 1 /\ i <= Len(line) /\ line[i] \in Digits /\ NameEnd(line, i) >= i + 1
    THEN NameEnd(line, i) ELSE 0

\* regexGAV matched at index s: the last index of group(1), 0 when it does not
\* match.  The optional fourth segment is tried first (greedy); the optional
\* scope (:[\w]*\S)? follows group(1) and never changes it.
MatchGAV(line, s) ==
    LET s1 == Segment(line, s)
        s2 == IF s1 = 0 THEN 0 ELSE Segment(line, s1)
        s3 == IF s2 = 0 THEN 0 ELSE Segment(line, s2)
        s4 == IF s3 = 0 THEN 0 ELSE Segment(line, s3)
    IN  IF s3 = 0 THEN 0
        ELSE IF s4 # 0 /\ VersionEnd(line, s4) # 0 THEN VersionEnd(line, s4)
        ELSE VersionEnd(line, s3)

\* regexGAV.search(nextLine).group(1): the leftmost match; <<>> when search
\* returns None
regexGAV(line) ==
    LET starts == {s \in DOMAIN line : MatchGAV(line, s) # 0}
    IN  IF starts = {} THEN <<>>
        ELSE SubSeq(line, Min(starts), MatchGAV(line, Min(starts)))

\* gav.split(':')
RECURSIVE split(_)
split(text) ==
    LET colons == {i \in DOMAIN text : text[i] = ":"}
    IN  IF colons = {} THEN <<text>>
        ELSE <<SubSeq(text, 1, Min(colons) - 1)>>
                \o split(SubSeq(text, Min(colons) + 1, Len(text)))

\* one turn of the loop of depListToArtifactList: what the line appends
depLineToArtifacts(nextLine) ==
    LET gav == regexGAV(strip(regexComment(nextLine)))
        fields == split(gav)
    IN  IF gav = <<>> THEN <<>>
        ELSE <<createFromGAV([i \in DOMAIN fields |-> Text(fields[i])])>>

RECURSIVE depListToArtifactList(_)
depListToArtifactList(lines) ==
    IF lines = <<>> THEN <<>>
    ELSE depListToArtifactList(SubSeq(lines, 1, Len(lines) - 1))
            \o depLineToArtifacts(lines[Len(lines)])

\* the characters of words joined by sep
RECURSIVE Join(_, _)
Join(words, sep) ==
    IF words = <<>> THEN <<>>
    ELSE IF Len(words) = 1 THEN Chars(words[1])
    ELSE Chars(words[1]) \o sep \o Join(Tail(words), sep)

\* the lines of artifact list files: group:artifact:type[:classifier]:version[:scope]
\* with versions of several shapes, alone, after other text or before a comment,
\* and lines that hold no coordinate
GavRecords == [artifactType : {"jar"}, classifier : {"", "sources"},
               version : {"1.0", "1", "v1"}, scope : {"", "compile"}]

GavLine(r) ==
    Join(<<"g", "a", r.artifactType>>
            \o (IF r.classifier # "" THEN <<r.classifier>> ELSE <<>>)
            \o <<r.version>>
            \o (IF r.scope # "" THEN <<r.scope>> ELSE <<>>), <<":">>)

Leads == {<<>>, Chars("x") \o <<" ">>}
Notes == {<<>>, <<" ", " ", "#", " ">> \o Chars("note")}

DepLines ==
    {GavLine(r) \o note \o <<"\n">> : r \in GavRecords, note \in Notes}
    \cup {Chars("x") \o <<" ">> \o GavLine(r) \o <<"\n">> :
            r \in {r \in GavRecords : r.version = "1.0" /\ r.scope = ""}}
    \cup {Join(<<"not", "a", "coordinate">>, <<" ">>) \o <<"\n">>,
          Join(<<"g", "a", "1.0">>, <<":">>) \o <<"\n">>,
          <<"#", " ">> \o Chars("note") \o <<"\n">>,
          <<"\n">>}

\* depListToArtifactList(dependencyListLines) is called on the lines of a file
InitDepList ==
    /\ FetchIdle
    /\ GenIdle
    /\ argv = <<>>
    /\ fetchers = <<>>
    /\ depList \in ListsOf(DepLines, MaxLines)
    /\ depNext = 1
    /\ depArtifacts = <<>>

\* one turn of the loop over depList
DepListLine ==
    /\ depNext <= Len(depList)
    /\ depArtifacts' = depArtifacts \o depLineToArtifacts(depList[depNext])
    /\ depNext' = depNext + 1
    /\ UNCHANGED <<fetchVars, genVars, argv, fetchers, depList>>

NextDepList == DepListLine

SpecDepList == InitDepList /\ [][NextDepList]_vars

(***************************************************************************)
(* main from its first line: the command line, the artifact list files or  *)
(* the list generator, then the fetch of each url and the checksums.       *)
(***************************************************************************)
\* lines list files are written with in the runs of main
MainLines ==
    {GavLine([artifactType |-> "jar", classifier |-> "", version |-> "1.0",
              scope |-> ""]) \o <<"\n">>,
     GavLine([artifactType |-> "jar", classifier |-> "sources", version |-> "1.0",
              scope |-> "compile"]) \o <<"\n">>,
     Join(<<"not", "a", "coordinate">>, <<" ">>) \o <<"\n">>}

\* a positional argument: no such file, a file whose read fails, or a file
ListFiles ==
    {[state |-> "absent", lines |-> <<>>], [state |-> "unreadable", lines |-> <<>>]}
    \cup {[state |-> "readable", lines |-> lines] : lines \in ListsOf(MainLines, MaxLines)}

\* the origins of the runs of main: each holds every file, or every pom only
Holding(exts) == [p \in {p \in ContentPaths : p.ext \in exts} |-> "ok"]

MainRemotes ==
    {[url \in Urls |-> IF url.protocol = "file" THEN held ELSE Holding(Types)] :
        held \in {Holding(Types), Holding({"pom"})}}

\* the loop over args up to file n: [artifacts, log, exited]
RECURSIVE readLists(_, _)
readLists(files, n) ==
    IF n = 0 THEN [artifacts |-> <<>>, log |-> {}, exited |-> FALSE]
    ELSE LET r == readLists(files, n - 1)
             record(level, msg) ==
                 [level |-> level, msg |-> msg, url |-> Url("http"), file |-> <<n>>]
         IN  IF r.exited THEN r
             ELSE CASE files[n].state = "absent" ->
                         [r EXCEPT !.log = @ \cup
                             {record("warning", "Dependency list file does not exist, skipping")}]
                    [] files[n].state = "unreadable" ->
                         [r EXCEPT !.log = @ \cup {record("error", "Unable to read file")},
                                   !.exited = TRUE]
                    [] OTHER ->
                         [r EXCEPT !.artifacts = @ \o depListToArtifactList(files[n].lines),
                                   !.log = @ \cup
                                       {record("info", "Reading artifact list from file")}]

\* the status the process ends with: sys.exit(usage) prints the text and exits
\* with 1, an uncaught exception exits with 1, sys.exit() and the end of main
\* with 0
exitStatus ==
    CASE pc = "usage" -> 1
      [] pc = "crashed" -> 1
      [] OTHER -> 0

MissingArgument ==
    [level |-> "error", msg |-> "Missing required command line argument",
     url |-> Url("http"), file |-> <<>>]

\* main is started on a command line, over an output directory without files
InitMain ==
    /\ argv \in [config : {FALSE}, url : OptionUrls, files : ListsOf(ListFiles, 1)]
                \cup [config : {TRUE}, url : {Url("http")}, files : {<<>>}]
    /\ classifiers \in {<<"sources">>} \cup (IF argv.config THEN {<<"__all__">>} ELSE {})
    /\ remote \in MainRemotes
    /\ localRepo \in {r \in InitRepos : DOMAIN r.files = {} /\ (argv.config => ~r.root)}
    /\ initialRepo = localRepo
    /\ startRepo = localRepo
    /\ jobs = <<>>
    /\ pc = "start"
    /\ job = 1
    /\ entered = FALSE
    /\ art = 1
    /\ writes = NoWrites
    /\ requests = {}
    /\ log = {}
    /\ run = 1
    /\ history = <<>>
    /\ GenIdle
    /\ depList = <<>>
    /\ depNext = 1
    /\ depArtifacts = <<>>
    /\ fetchers = <<>>

\* neither --config nor a list file falling through to the fetch
Usage_noExit ==
    /\ pc = "start"
    /\ ~argv.config /\ Len(argv.files) < 1
    /\ log' = log \cup {MissingArgument}
    /\ jobs' = <<[url |-> argv.url, artifacts |-> <<>>]>>
    /\ pc' = "fetch"
    /\ UNCHANGED <<otherVars, genVars, remote, classifiers, localRepo, initialRepo, startRepo,
                   job, entered, art, writes, requests, run, history>>

\* neither --config nor a list file: the error and sys.exit(usage)
Usage ==
    /\ pc = "start"
    /\ ~argv.config /\ Len(argv.files) < 1
    /\ log' = log \cup {MissingArgument}
    /\ pc' = "usage"
    /\ UNCHANGED <<otherVars, genVars, remote, jobs, classifiers, localRepo, initialRepo,
                   startRepo, job, entered, art, writes, requests, run, history>>

\* the list files are read and converted; fetchArtifacts is called on options.url
ReadLists ==
    /\ pc = "start"
    /\ ~argv.config /\ Len(argv.files) >= 1
    /\ LET r == readLists(argv.files, Len(argv.files))
       IN  /\ log' = log \cup r.log
           /\ IF r.exited
              THEN pc' = "exited" /\ UNCHANGED jobs
              ELSE /\ jobs' = <<[url |-> argv.url, artifacts |-> r.artifacts]>>
                   /\ pc' = "fetch"
    /\ UNCHANGED <<otherVars, genVars, remote, classifiers, localRepo, initialRepo, startRepo,
                   job, entered, art, writes, requests, run, history>>

\* --config: artifact_list_generator.generateArtifactList(options) is called
CallGenerator ==
    /\ pc = "start"
    /\ argv.config
    /\ allclassifiers' = (classifiers = <<"__all__">>)
    /\ gpc' = "load"
    /\ pc' = "generate"
    /\ UNCHANGED <<otherVars, builtList, artifactList, urlToMAList, remote, jobs, classifiers,
                   localRepo, initialRepo, startRepo, job, entered, art, writes, requests,
                   log, run, history>>

\* the generator has returned: the loop over artifactList.keys() starts; the
\* lists the generator worked on are gone
FetchEach ==
    /\ pc = "generate" /\ gpc = "done"
    /\ \E order \in [1..Cardinality(DOMAIN urlToMAList) -> DOMAIN urlToMAList] :
          /\ Range(order) = DOMAIN urlToMAList
          /\ jobs' = [i \in DOMAIN order |->
                         [url |-> order[i], artifacts |-> urlToMAList[order[i]]]]
    /\ pc' = IF DOMAIN urlToMAList = {} THEN "sums" ELSE "fetch"
    /\ builtList' = <<>>
    /\ artifactList' = <<>>
    /\ UNCHANGED <<otherVars, allclassifiers, gpc, urlToMAList, remote, classifiers, localRepo,
                   initialRepo, startRepo, job, entered, art, writes, requests, log, run,
                   history>>

NextMain ==
    \/ Usage
    \/ ReadLists
    \/ CallGenerator
    \/ BuildList
    \/ FilterList
    \/ GenerateArtifactList
    \/ FetchEach
    \/ RetrieveArtifacts
    \/ DownloadArtifacts
    \/ CopyArtifact
    \/ GenerateChecksums

\* one run of the builder from its command line
SpecMain == InitMain /\ [][NextMain]_vars

(***************************************************************************)
(* Two builder processes at work on one output directory.  The test of a   *)
(* directory and its creation are two system calls: another process can    *)
(* run between them.  os.makedirs raises OSError when the directory is     *)
(* there.                                                                  *)
(***************************************************************************)
Procs == {1, 2}

\* process i fetches the artifact jobs[i].artifacts[1] from jobs[i].url
InitConcurrent ==
    /\ jobs \in {<<[url |-> u1, artifacts |-> <<a1>>], [url |-> u2, artifacts |-> <<a2>>]>> :
                    <<u1, u2, a1, a2>> \in {Url("file"), Url("http")} \X {Url("file"), Url("http")}
                                            \X Coordinates \X Coordinates}
    /\ classifiers = <<"sources">>
    /\ remote \in MainRemotes
    /\ localRepo \in {r \in InitRepos : DOMAIN r.files = {}}
    /\ initialRepo = localRepo
    /\ startRepo = localRepo
    /\ pc = "concurrent"
    /\ job = 1
    /\ entered = FALSE
    /\ art = 1
    /\ writes = NoWrites
    /\ requests = {}
    /\ log = {}
    /\ run = 1
    /\ history = <<>>
    /\ GenIdle
    /\ argv = <<>>
    /\ depList = <<>>
    /\ depNext = 1
    /\ depArtifacts = <<>>
    /\ fetchers = [i \in Procs |-> "retrieve"]

Goes(i, place) == fetchers' = [fetchers EXCEPT ![i] = place]

ConcurrentFrame ==
    UNCHANGED <<genVars, argv, depVars, remote, jobs, classifiers, initialRepo, startRepo,
                pc, job, entered, art, run, history>>

\* retrieveArtifacts: os.path.exists(localRepoDir)
RootExists ==
    \E i \in Procs :
        /\ fetchers[i] = "retrieve"
        /\ Goes(i, IF localRepo.root THEN "artifact" ELSE "makeroot")
        /\ UNCHANGED <<localRepo, writes, requests, log>>
        /\ ConcurrentFrame

\* retrieveArtifacts: os.makedirs(localRepoDir)
MakeRootDir ==
    \E i \in Procs :
        /\ fetchers[i] = "makeroot"
        /\ IF localRepo.root
           THEN Goes(i, "oserror") /\ UNCHANGED <<localRepo, writes, requests, log>>
           ELSE Goes(i, "artifact") /\ Effects(makeRoot(World))
        /\ ConcurrentFrame

\* downloadArtifacts, copyArtifact: os.path.exists(artifactLocalDir); copyArtifact
\* comes to it only with the main artifact to copy
DirExists ==
    \E i \in Procs :
        LET url == jobs[i].url
            artifact == jobs[i].artifacts[1]
            main == getArtifactFilepath(artifact)
            tested == \/ Transport(url) = "download"
                      \/ Answer(url, main) = "ok" /\ ~exists(World, main)
        IN  /\ fetchers[i] = "artifact"
            /\ Goes(i, IF tested /\ ~dirExists(World, getDirPath(artifact))
                       THEN "makedirs" ELSE "files")
            /\ UNCHANGED <<localRepo, writes, requests, log>>
            /\ ConcurrentFrame

\* downloadArtifacts, copyArtifact: os.makedirs(artifactLocalDir)
MakeArtifactDir ==
    \E i \in Procs :
        LET dir == getDirPath(jobs[i].artifacts[1])
        IN  /\ fetchers[i] = "makedirs"
            /\ IF dirExists(World, dir)
               THEN Goes(i, "oserror") /\ UNCHANGED <<localRepo, writes, requests, log>>
               ELSE Goes(i, "files") /\ Effects(makedirs(World, dir))
            /\ ConcurrentFrame

\* the files of the artifact, the directory being settled
FetchFiles ==
    \E i \in Procs :
        LET w == IF Transport(jobs[i].url) = "copy"
                 THEN copyArtifact(World, jobs[i].url, jobs[i].artifacts[1], classifiers)
                 ELSE downloadArtifacts(World, jobs[i].url, jobs[i].artifacts[1], classifiers)
        IN  /\ fetchers[i] = "files"
            /\ Goes(i, IF w.raised THEN "ioerror" ELSE "done")
            /\ Effects(w)
            /\ ConcurrentFrame

NextConcurrent ==
    \/ RootExists
    \/ MakeRootDir
    \/ DirExists
    \/ MakeArtifactDir
    \/ FetchFiles

SpecConcurrent == InitConcurrent /\ [][NextConcurrent]_vars





(***************************************************************************)
(* Properties of the fetch and of the checksum pass.                       *)
(***************************************************************************)
FreshWorld(repo) ==
    [repo |-> repo, writes |-> NoWrites, requests |-> {}, log |-> {}, raised |-> FALSE]

\* the checksum file of content file p for digest ext
SumFile(p, ext) == [p EXCEPT !.sfx = Append(@, ext)]

\* the artifacts the current run has handled: <<job index, artifact index>>; the
\* artifact whose handler raised is one of them
HandledArts ==
    UNION {{<<i, k>> : k \in {k \in DOMAIN jobs[i].artifacts :
                                 \/ i < job
                                 \/ i = job /\ entered
                                      /\ (k < art \/ (k = art /\ pc = "crashed"))}} :
             i \in DOMAIN jobs}

AlreadyDownloaded(url, p) ==
    [level |-> "debug", msg |-> "Artifact already downloaded", url |-> url,
     file |-> FileOf(p)]

\* C1: a destination file that exists when the fetcher handles it (downloadFile or
\* copyArtifact) is not written: its content after the step is its content before,
\* whatever the origin holds for that path.
C1_ExistingFileNotWritten ==
    [][(pc = "fetch" /\ entered) =>
          \A p \in Range(Targets(jobs[job].artifacts[art], classifiers)) :
              Content(localRepo, p) # Absent =>
                  /\ Content(localRepo', p) = Content(localRepo, p)
                  /\ (p \in writes'.files => p \in writes.files)]_vars

C1_DownloadSkipped ==
    \E p \in ContentPaths, url \in Urls :
        /\ AlreadyDownloaded(url, p) \in log
        /\ Answer(url, p) = "ok"
        /\ Content(localRepo, p) = Old(p)

C1_CopySkipped ==
    \E p \in ContentPaths, url \in Urls :
        /\ [url |-> url, path |-> p, via |-> "copy"] \in requests
        /\ Answer(url, p) = "ok"
        /\ Content(localRepo, p) = Old(p)

C1_Witness == C1_DownloadSkipped \/ C1_CopySkipped

\* C2: a run of the fetcher that follows a run over the same inputs, with the
\* origin unchanged, writes nothing and leaves the destination tree as the first
\* run left it, also when the first run found files missing at the origin.
C2_SecondFetchWritesNothing ==
    (run > 1 /\ history[run - 1] # "killed" /\ pc \in {"fetch", "sums", "crashed"}) =>
        /\ writes = NoWrites
        /\ localRepo = startRepo

C2_Witness ==
    /\ run = 2 /\ history[1] = "done" /\ pc = "sums"
    /\ \E r \in requests : Answer(r.url, r.path) = "missing"
    /\ \E p \in ContentPaths, url \in Urls :
          Content(initialRepo, p) = Absent /\ Content(localRepo, p) = Served(url, p)

\* C3: after a run interrupted during the fetch, a later uninterrupted run with
\* the same inputs ends with the destination tree of a run that was never
\* interrupted.
C3_ResumedRunEqualsUninterrupted ==
    (run > 1 /\ history[run - 1] = "killed" /\ pc = "done") =>
        localRepo = mainRun(FreshWorld(initialRepo), jobs, classifiers).repo

\* C4: when generateChecksums has finished, every file that is not a checksum
\* file has both checksum files, and every checksum file the pass wrote holds the
\* digest of its content file followed by a newline.
C4_ChecksumsComplete ==
    pc = "done" =>
        /\ \A p \in Paths :
              (Content(localRepo, p) # Absent /\ splitext(p) \notin DigestExts) =>
                  \A ext \in DigestExts : Content(localRepo, SumFile(p, ext)) # Absent
        /\ \A p \in ContentPaths, ext \in DigestExts :
              SumFile(p, ext) \in writes.files =>
                  Content(localRepo, SumFile(p, ext))
                      = <<ext>> \o Content(localRepo, p) \o <<"\n">>

C4_Witness ==
    /\ pc = "done"
    /\ \E p \in ContentPaths :
          /\ Content(initialRepo, p) = Absent
          /\ p \in writes.files
          /\ Content(initialRepo, SumFile(p, "md5")) # Absent
          /\ SumFile(p, "sha1") \in writes.files

\* C5: the checksum pass never changes a checksum file that existed before it,
\* even one holding a wrong digest, and a second pass over the unchanged tree
\* writes nothing.
C5_ExistingChecksumsKept ==
    /\ \A s \in Paths :
          (s.sfx # <<>> /\ Content(startRepo, s) # Absent) =>
              Content(localRepo, s) = Content(startRepo, s) /\ s \notin writes.files
    /\ (run > 1 /\ history[run - 1] = "done" /\ pc = "done") => writes = NoWrites

C5_Witness ==
    /\ run = 2 /\ history[1] = "done" /\ pc = "done"
    /\ \E p \in ContentPaths, ext \in DigestExts :
          /\ Content(localRepo, p) # Absent
          /\ Content(localRepo, SumFile(p, ext)) = Old(SumFile(p, ext))
          /\ Content(localRepo, SumFile(p, ext)) # <<ext>> \o Content(localRepo, p) \o <<"\n">>

\* C8: the transport follows the protocol of the url: file is copied, http and
\* https are downloaded, any other protocol is logged as an error and nothing is
\* fetched from that url, while the other urls of the run are fetched.
C8_TransportByProtocol ==
    /\ \A r \in requests :
          /\ r.url.protocol = "file" => r.via = "copy"
          /\ r.url.protocol \in {"http", "https"} => r.via = "download"
          /\ r.url.protocol \in {"file", "http", "https"}
    /\ \A i \in DOMAIN jobs :
          jobs[i].url.protocol \notin {"file", "http", "https"} =>
              /\ \A p \in ContentPaths :
                    Content(localRepo, p) \notin {Served(jobs[i].url, p),
                                                Truncated(Served(jobs[i].url, p))}
              /\ i < job =>
                    [level |-> "error", msg |-> "Unknown protocol",
                     url |-> jobs[i].url, file |-> <<>>] \in log
    /\ pc = "crashed" => jobs[job].url.protocol = "file"
    /\ \A h \in HandledArts :
          LET url == jobs[h[1]].url
              p == getArtifactFilepath(jobs[h[1]].artifacts[h[2]])
          IN  /\ url.protocol = "file" =>
                    [url |-> url, path |-> p, via |-> "copy"] \in requests
              /\ url.protocol \in {"http", "https"} =>
                    \/ [url |-> url, path |-> p, via |-> "download"] \in requests
                    \/ AlreadyDownloaded(url, p) \in log
    /\ pc \in {"sums", "done"} =>
          \A h \in HandledArts :
              LET url == jobs[h[1]].url
              IN  url.protocol \in {"file", "http", "https"} =>
                     \A p \in Range(Targets(jobs[h[1]].artifacts[h[2]], classifiers)) :
                         Answer(url, p) = "ok" => Content(localRepo, p) # Absent

C8_Witness ==
    /\ pc = "done" /\ run = 1
    /\ jobs[1].url.protocol = "ftp"
    /\ \E p \in ContentPaths : Content(localRepo, p) = Served(jobs[2].url, p)

\* C9: copyArtifact copies every file of the artifact that exists under the
\* origin and is absent at the destination, creating the directory when it is
\* missing, also when the main artifact is absent at the origin.
C9_CopiesEveryAvailableFile ==
    \A h \in HandledArts :
        LET url == jobs[h[1]].url
        IN  url.protocol = "file" =>
               \A p \in Range(Targets(jobs[h[1]].artifacts[h[2]], classifiers)) :
                   Answer(url, p) = "ok" => Content(localRepo, p) # Absent

\* C10: a fetch failure on one file other than not-found is logged and skips that
\* file only: the run goes on to the remaining files and to the checksums.
C10_FailureSkipsOneFile ==
    /\ pc # "crashed"
    /\ \A r \in requests :
          Answer(r.url, r.path) = "error" =>
              [level |-> "error", msg |-> "Unable to download", url |-> r.url,
               file |-> FileOf(r.path)] \in log

(***************************************************************************)
(* Properties of the generated list.                                       *)
(***************************************************************************)
\* the list generated for url, empty when the url has none
ListOf(url) == IF url \in DOMAIN urlToMAList THEN urlToMAList[url] ELSE <<>>

\* how many times artifact a is in the generated list, under any url
Occurrences(a) ==
    Cardinality(UNION {{<<url, i>> : i \in {i \in DOMAIN ListOf(url) : ListOf(url)[i] = a}} :
                         url \in ListUrls})

\* the Coordinate of entry k of the list and classifier c
CoordinateOf(k, c) ==
    [groupId |-> k[1][1], artifactId |-> k[1][2], artifactType |-> k[1][3],
     classifier |-> c, version |-> k[3]]

\* k1 is the first priority of its gat and version in the built list, k2 a later one
Shadows(k1, k2) ==
    /\ k1 \in DOMAIN builtList /\ k2 \in DOMAIN builtList
    /\ k1[1] = k2[1] /\ k1[3] = k2[3] /\ k1[2] < k2[2]
    /\ \A j \in DOMAIN builtList : (j[1] = k1[1] /\ j[3] = k1[3]) => k1[2] <= j[2]
    /\ builtList[k1] # builtList[k2]

C7_ClassifierExpansion ==
    gpc = "done" =>
        /\ \A k \in DOMAIN artifactList : \A c \in Classifiers :
              LET expected == c \in artifactList[k].classifiers
                              /\ (allclassifiers \/ c = "")
              IN  /\ Occurrences(CoordinateOf(k, c)) = (IF expected THEN 1 ELSE 0)
                  /\ expected =>
                        \E i \in DOMAIN ListOf(artifactList[k].url) :
                            ListOf(artifactList[k].url)[i] = CoordinateOf(k, c)
        /\ \A url \in DOMAIN urlToMAList : \A i \in DOMAIN urlToMAList[url] :
              \E k \in DOMAIN artifactList, c \in Classifiers :
                  urlToMAList[url][i] = CoordinateOf(k, c)

C7_Witness ==
    /\ gpc = "done" /\ allclassifiers
    /\ \E k \in DOMAIN artifactList :
          /\ artifactList[k].classifiers = {"", "sources"}
          /\ Len(ListOf(artifactList[k].url)) = 2
          /\ Range(ListOf(artifactList[k].url))
                = {CoordinateOf(k, ""), CoordinateOf(k, "sources")}

\* the stepwise run and the run as one operator agree
StepsAgree ==
    (run = 1 /\ pc \in {"done", "crashed"}) =>
        LET w == mainRun([repo |-> initialRepo, writes |-> NoWrites, requests |-> {},
                          log |-> {}, raised |-> FALSE], jobs, classifiers)
        IN  /\ w.repo = localRepo
            /\ w.raised = (pc = "crashed")
            /\ w.writes = writes

(***************************************************************************)
(* Properties of the two transports.                                       *)
(***************************************************************************)
NotFound(url, p) ==
    [level |-> "warning", msg |-> "Remote file not found", url |-> url, file |-> FileOf(p)]

Request(url, p, via) == [url |-> url, path |-> p, via |-> via]

\* C11: on the network transport a file the origin answers with 404 is skipped:
\* the warning is logged and no destination file is left for it; the run does not
\* end there, and every file of the same artifact and of every later artifact of
\* the list is requested (or found at the destination already).
C11_NotFoundIsSkip ==
    /\ \A r \in requests :
          (r.via = "download" /\ Answer(r.url, r.path) = "missing") =>
              /\ NotFound(r.url, r.path) \in log
              /\ Content(localRepo, r.path) = Absent
    /\ \A i \in DOMAIN jobs :
          Transport(jobs[i].url) = "download" =>
              /\ ~(pc = "crashed" /\ job = i)
              /\ (pc \in {"sums", "done"} /\ i < job) =>
                    \A k \in DOMAIN jobs[i].artifacts : <<i, k>> \in HandledArts
              /\ \A h \in HandledArts :
                    h[1] = i =>
                        \A p \in Range(Targets(jobs[i].artifacts[h[2]], classifiers)) :
                            \/ Request(jobs[i].url, p, "download") \in requests
                            \/ AlreadyDownloaded(jobs[i].url, p) \in log

C11_Witness ==
    /\ pc = "done" /\ run = 1
    /\ Transport(jobs[1].url) = "download"
    /\ Len(jobs[1].artifacts) = 2
    /\ LET url == jobs[1].url
           first == jobs[1].artifacts[1]
           second == jobs[1].artifacts[2]
       IN  /\ Request(url, getArtifactFilepath(first), "download") \in requests
           /\ Answer(url, getArtifactFilepath(first)) = "missing"
           /\ Content(localRepo, getArtifactFilepath(first)) = Absent
           /\ \E p \in Range(Companions(first, classifiers)) :
                 p \in writes.files /\ Content(localRepo, p) = Served(url, p)
           /\ Request(url, getArtifactFilepath(second), "download") \in requests
           /\ getArtifactFilepath(second) \in writes.files

\* the fetcher has tried path p of url: it asked the origin for it, or found
\* the file at the destination
Attempted(reqs, records, url, p) ==
    \/ \E r \in reqs : r.url = url /\ r.path = p
    \/ AlreadyDownloaded(url, p) \in records

\* the artifacts handled over one of the two transports
FetchedArts == {h \in HandledArts : Transport(jobs[h[1]].url) # "unknown"}

\* the files the fetcher is to try for a coordinate: the main file, the pom when
\* withPom, the file of each additional classifier when withClassifiers
FilesFor(artifact, withPom, withClassifiers) ==
    {getArtifactFilepath(artifact)}
    \cup (IF withPom THEN {getPomFilepath(artifact)} ELSE {})
    \cup (IF withClassifiers
          THEN {getClassifierFilepath(artifact, classifiers[i]) : i \in DOMAIN classifiers}
          ELSE {})

IsPom(artifact) == artifact.artifactType = "pom"

\* the urls and paths the current run has tried
Tried == {<<url, p>> \in Urls \X ContentPaths : Attempted(requests, log, url, p)}

\* C14 as claimed: for every coordinate the fetcher handles, it tries the pom
\* file besides the main file exactly when the coordinate's type is not pom; for
\* a coordinate of type pom, with or without a classifier, it tries no separate
\* pom file: every file tried is one a handled coordinate accounts for.
C14_PomExactlyForOtherTypes ==
    /\ \A h \in FetchedArts :
          LET artifact == jobs[h[1]].artifacts[h[2]]
          IN  ~IsPom(artifact) =>
                 Attempted(requests, log, jobs[h[1]].url, getPomFilepath(artifact))
    /\ \A t \in Tried :
          \E h \in FetchedArts :
              LET artifact == jobs[h[1]].artifacts[h[2]]
              IN  /\ jobs[h[1]].url = t[1]
                  /\ t[2] \in FilesFor(artifact, ~IsPom(artifact),
                                       ~IsPom(artifact) /\ artifact.classifier = "")

\* C14 as amended: for every coordinate the fetcher handles, on both transports,
\* it tries the pom file besides the main file exactly when the main file is not
\* the pom file itself: for every type other than pom, and for a coordinate of
\* type pom that has a classifier; for a coordinate of type pom without
\* classifier no separate pom file is tried.
C14_PomExactlyForOtherFiles ==
    /\ \A h \in FetchedArts :
          LET artifact == jobs[h[1]].artifacts[h[2]]
          IN  (~IsPom(artifact) \/ artifact.classifier # "") =>
                 Attempted(requests, log, jobs[h[1]].url, getPomFilepath(artifact))
    /\ \A t \in Tried :
          \E h \in FetchedArts :
              LET artifact == jobs[h[1]].artifacts[h[2]]
              IN  /\ jobs[h[1]].url = t[1]
                  /\ t[2] \in FilesFor(artifact, ~IsPom(artifact) \/ artifact.classifier # "",
                                       ~IsPom(artifact) /\ artifact.classifier = "")

C14_Witness ==
    /\ pc = "done" /\ run = 1
    /\ Len(jobs[1].artifacts) = 2
    /\ jobs[1].artifacts[1].artifactType = "pom" /\ jobs[1].artifacts[1].classifier = "sources"
    /\ jobs[1].artifacts[2].artifactType = "jar" /\ jobs[1].artifacts[2].classifier = "sources"
    /\ Transport(jobs[1].url) = "copy"
    /\ Request(jobs[1].url, getPomFilepath(jobs[1].artifacts[1]), "copy") \in requests
    /\ getPomFilepath(jobs[1].artifacts[1]) \in writes.files

\* C15: on both transports, for every coordinate the fetcher handles that has an
\* empty classifier and a type other than pom, the file of every additional
\* classifier is tried; for a classified coordinate or one of type pom none is:
\* every file tried is one a handled coordinate accounts for.
C15_ClassifiersExactlyForMainArtifacts ==
    /\ \A h \in FetchedArts :
          LET artifact == jobs[h[1]].artifacts[h[2]]
          IN  (~IsPom(artifact) /\ artifact.classifier = "") =>
                  \A i \in DOMAIN classifiers :
                      Attempted(requests, log, jobs[h[1]].url,
                                getClassifierFilepath(artifact, classifiers[i]))
    /\ \A t \in Tried :
          \E h \in FetchedArts :
              LET artifact == jobs[h[1]].artifacts[h[2]]
              IN  /\ jobs[h[1]].url = t[1]
                  /\ t[2] \in FilesFor(artifact, TRUE,
                                       ~IsPom(artifact) /\ artifact.classifier = "")

\* the part of C15 that holds: in a run that no copy error ended
C15_UnlessCrashed == pc # "crashed" => C15_ClassifiersExactlyForMainArtifacts

\* every file the list entry `artifact` can bring: its main file, its pom and its
\* file for each additional classifier
DerivedPaths(artifact) == FilesFor(artifact, TRUE, TRUE)

\* C19: a step of the fetcher (retrieveArtifacts, downloadArtifacts, copyArtifact)
\* creates only files derived from the artifact it handles and only the directory
\* that holds them (and the root); it deletes no file and no directory, leaves the
\* content of every other file of the destination tree as it was, and leaves the
\* origin as it was.
C19_FetcherWritesOnlyItsFiles ==
    [][pc = "fetch" =>
          LET derived == IF entered THEN DerivedPaths(jobs[job].artifacts[art]) ELSE {}
              dirs == IF entered THEN {getDirPath(jobs[job].artifacts[art])} ELSE {}
          IN  /\ remote' = remote
              /\ \A p \in DOMAIN localRepo.files :
                    /\ p \in DOMAIN localRepo'.files
                    /\ p \notin derived => localRepo'.files[p] = localRepo.files[p]
              /\ (DOMAIN localRepo'.files) \ (DOMAIN localRepo.files) \subseteq derived
              /\ localRepo.dirs \subseteq localRepo'.dirs
              /\ localRepo'.dirs \ localRepo.dirs \subseteq dirs
              /\ localRepo.root => localRepo'.root]_vars

C19_Witness ==
    /\ pc = "sums" /\ run = 1
    /\ writes.files # {}
    /\ \E p \in DOMAIN initialRepo.files :
          /\ \A k \in DOMAIN jobs[1].artifacts : p \notin DerivedPaths(jobs[1].artifacts[k])
          /\ Content(localRepo, p) = Old(p)

(***************************************************************************)
(* Properties of the checksum pass over any number of runs.                *)
(***************************************************************************)
\* the files of the tree that the runs so far have added
AddedFiles == (DOMAIN localRepo.files) \ (DOMAIN initialRepo.files)

\* C20: the checksum pass creates no checksum file for a file whose extension is
\* md5 or sha1: after any number of passes no file with two digest extensions
\* has been created, and the checksum files added are at most two for each file
\* of the tree that is not a checksum file.
C20_NoChecksumOfChecksum ==
    /\ \A p \in AddedFiles : Len(p.sfx) <= 1
    /\ \A p \in writes.files : Len(p.sfx) <= 1
    /\ Cardinality({p \in AddedFiles : p.sfx # <<>>})
          <= 2 * Cardinality({p \in DOMAIN localRepo.files : p.sfx = <<>>})

C20_Witness ==
    /\ run = 2 /\ history[1] = "done" /\ pc = "done"
    /\ \E s \in DOMAIN initialRepo.files :
          /\ Len(s.sfx) = 1
          /\ Content(localRepo, [s EXCEPT !.sfx = <<>>]) # Absent
          /\ \E ext \in DigestExts : SumFile([s EXCEPT !.sfx = <<>>], ext) \in AddedFiles

(***************************************************************************)
(* Properties of depListToArtifactList.                                    *)
(***************************************************************************)
\* the ways to read a line as group:artifact:type[:classifier]:version[:scope],
\* after other text and before a comment
Stated(line) ==
    {r \in GavRecords :
        \E lead \in Leads, note \in Notes : line = lead \o GavLine(r) \o note \o <<"\n">>}

\* the Coordinate a line states: the scope is dropped
StatedCoordinate(r) ==
    [groupId |-> "g", artifactId |-> "a", artifactType |-> r.artifactType,
     classifier |-> r.classifier, version |-> r.version]

RECURSIVE StatedList(_)
StatedList(lines) ==
    IF lines = <<>> THEN <<>>
    ELSE StatedList(SubSeq(lines, 1, Len(lines) - 1))
            \o (LET line == lines[Len(lines)]
                IN  IF Stated(line) = {} THEN <<>>
                    ELSE <<StatedCoordinate(CHOOSE r \in Stated(line) : TRUE)>>)

\* C13: depListToArtifactList yields, in the order of the lines, one Coordinate
\* for each line that states group:artifact:type[:classifier]:version[:scope],
\* with the fields taken from those positions and the scope dropped, and none for
\* any other line, whatever the other lines are.
C13_OneCoordinatePerStatedLine ==
    depArtifacts = StatedList(SubSeq(depList, 1, depNext - 1))

\* what holds of C13: the lines whose version is a digit followed by more
DottedOnly(lines) ==
    \A i \in DOMAIN lines : \A r \in Stated(lines[i]) : r.version = "1.0"

C13_ForLongVersions ==
    DottedOnly(depList) => C13_OneCoordinatePerStatedLine

(***************************************************************************)
(* Properties of main.                                                     *)
(***************************************************************************)
\* C12: started with neither --config nor a list file, the builder logs the
\* error and ends with the usage message and a status that is not 0, and nothing
\* of the run is a fetch or a checksum step: the output directory is as it was,
\* not created and not changed, and no origin was asked for anything.  No other
\* command line ends that way.
C12_UsageExit ==
    /\ (pc # "start" /\ ~argv.config /\ argv.files = <<>>) =>
          /\ pc = "usage"
          /\ MissingArgument \in log
          /\ exitStatus # 0
          /\ localRepo = initialRepo
          /\ writes = NoWrites
          /\ requests = {}
    /\ pc = "usage" => (~argv.config /\ argv.files = <<>>)

C12_Witness ==
    /\ pc = "usage"
    /\ ~localRepo.root
    /\ MissingArgument \in log

\* the phase main is in: 1 ReadSources, 2 Resolve and Filter (one call of the
\* filter), 3 GroupByOrigin, 4 the list is grouped, 5 FetchEach, 6
\* GenerateChecksums, 7 Done; 0 before the sources are read, 9 ended before Done
Phase ==
    CASE pc = "start" -> 0
      [] pc = "generate" /\ gpc = "load" -> 1
      [] pc = "generate" /\ gpc = "built" -> 2
      [] pc = "generate" /\ gpc = "filtered" -> 3
      [] pc = "generate" /\ gpc = "done" -> 4
      [] pc = "fetch" -> 5
      [] pc = "sums" -> 6
      [] pc = "done" -> 7
      [] OTHER -> 9

\* the steps that keep the order of the phases; a command line that names no
\* readable source ends the run before ReadSources is over
PhaseStep ==
    /\ \/ Phase' = Phase + 1
       \/ Phase = 5 /\ Phase' = 5 /\ job' >= job
       \/ Phase = 0 /\ ~argv.config /\ Phase' = 5
       \/ Phase = 0 /\ pc' \in {"usage", "exited"}
       \/ Phase = 4 /\ urlToMAList = <<>> /\ Phase' = 6
    /\ Phase' = 6 => (jobs' = <<>> \/ (job = Len(jobs) /\ job' = Len(jobs) + 1))
    /\ Phase >= 6 => (requests' = requests /\ job' = job /\ art' = art)
    /\ Phase < 6 => \A p \in DOMAIN localRepo'.files : p.sfx = <<>> \/ p \in DOMAIN localRepo.files

\* C16: a run goes through ReadSources, Resolve, Filter, GroupByOrigin,
\* FetchEach(origin), GenerateChecksums, Done in that order: the checksum pass
\* starts only after the fetch of every origin has returned, no fetch follows its
\* start, and every run comes to it and makes it once.
C16_PhasesInOrder == [][PhaseStep]_vars

\* the part of C16 that holds: the order, in every step that is not the end of
\* the run by a copy error
C16_OrderUnlessCrashed == [][pc' # "crashed" => PhaseStep]_vars

\* C17: in the list the generator returns every Coordinate stands under the url
\* of the ArtifactSpec it comes from and under no other url; with --config the
\* builder makes one fetchArtifacts call for each url of that list, with that
\* url's list; every file tried at a url belongs to an artifact of that url's
\* list, and when the run has ended every artifact of every url has been tried
\* at its url.
C17_EachUrlItsList ==
    /\ (pc = "generate" /\ gpc = "done") =>
          \A url \in DOMAIN urlToMAList : \A i \in DOMAIN urlToMAList[url] :
              LET a == urlToMAList[url][i]
              IN  /\ \E k \in DOMAIN artifactList :
                        /\ a = CoordinateOf(k, a.classifier)
                        /\ a.classifier \in artifactList[k].classifiers
                        /\ artifactList[k].url = url
                  /\ \A other \in DOMAIN urlToMAList :
                        other # url => a \notin Range(urlToMAList[other])
    /\ (argv.config /\ pc \in {"fetch", "sums", "done", "crashed"}) =>
          /\ \A i \in DOMAIN jobs : \A j \in DOMAIN jobs :
                jobs[i].url = jobs[j].url => i = j
          /\ {jobs[i].url : i \in DOMAIN jobs} = DOMAIN urlToMAList
          /\ \A i \in DOMAIN jobs : jobs[i].artifacts = urlToMAList[jobs[i].url]
          /\ \A t \in Tried :
                \E a \in Range(ListOf(t[1])) : t[2] \in DerivedPaths(a)
          /\ pc \in {"sums", "done", "crashed"} =>
                \A i \in DOMAIN jobs : \A k \in DOMAIN jobs[i].artifacts :
                    Attempted(requests, log, jobs[i].url,
                              getArtifactFilepath(jobs[i].artifacts[k]))

\* the part of C17 that holds: in a run that no copy error ended
C17_UnlessCrashed == pc # "crashed" => C17_EachUrlItsList

(***************************************************************************)
(* Properties of concurrent processes.                                     *)
(***************************************************************************)
\* C18: when two fetches find a directory of the output tree missing and both
\* try to create it, the one that comes second takes the directory being there
\* as success: no fetch fails on the creation of a directory.
C18_ConcurrentMakedirsSafe ==
    \A i \in DOMAIN fetchers : fetchers[i] # "oserror"

=============================================================================
